---- MODULE Spec2Model ----
(***************************************************************************)
(* ResearchHub semantic retrieval engine: the relational store (papers,    *)
(* workspaces, workspace_papers, vector_embeddings), the embedding write   *)
(* path (import_paper, upload_pdf, create_embedding) and the three         *)
(* retrieval operations of backend/utils/vector_db.py.                     *)
(*                                                                         *)
(* Floating-point vectors are modelled by integer vectors of dimension 2   *)
(* and Euclidean norm 5 (the unit sphere scaled by 5), so a cosine score   *)
(* of 1.0 is the dot product 25 and a score of 0.0 is 0.                   *)
(***************************************************************************)
EXTENDS Integers, Sequences, FiniteSets, TLC

None == "None"

\* ------------------------------------------------------------------ bounds
MaxPapers == 2          \* paper ids ever allocated (Spec, SpecConc)
MaxWorkspaces == 1      \* workspace ids ever allocated (Spec, SpecConc)
MaxCalls == 2           \* create_embedding calls in flight at once (SpecConc)
MaxLibrary == 3         \* papers of the one user of SpecRank
MaxShared == 2          \* workspaces of SpecWs

MaxThreads == 4         \* request threads of the pool (SpecLoad)
MaxTime == 2            \* clock readings (SpecTime)
MaxTurns == 2           \* chat messages answered (SpecChat)
MaxLinking == 2         \* add_paper_to_workspace calls in flight at once (SpecLink)
MaxExchanges == 12      \* chat messages answered (SpecHistory)

Users == {1, 2}

\* worker threads that run the synchronous endpoints
Threads == 1..MaxThreads

\* --------------------------------------------------------- program constants
MODEL_NAME == "all-MiniLM-L6-v2"
DefaultThreshold == 0   \* semantic_search(threshold = 0.0)
ChatTopK == 5           \* send_message calls workspace_semantic_search(top_k = 5)
HistoryLimit == 20      \* send_message reads .limit(20) history rows
RecentTurns == 10       \* chat_with_context sends conversation_history[-10:]
DefaultLimit == 50      \* get_history(limit = 50)

\* ------------------------------------------------------------ request inputs
\* PaperImport payloads (schemas.py): one search result with every field, one
\* manual entry that leaves external_id, abstract and authors at their defaults.
ImportInputs ==
    { [external_id |-> "2401.1", source |-> "arxiv", title |-> "Attention",
       abstract |-> "transformers", authors |-> <<"Vaswani">>],
      [external_id |-> None, source |-> "arxiv", title |-> "ResNet",
       abstract |-> None, authors |-> <<>>] }

\* Uploaded files: filename and the text PyMuPDF extracts (empty for a scan).
Files ==
    { [filename |-> "notes.pdf", title |-> "notes", text |-> "deep nets"],
      [filename |-> "scan.pdf",  title |-> "scan",  text |-> ""] }

\* Manual entries: PaperImport payloads with a title only; external_id stays
\* None and source is the default or what the client names.
ManualEntries ==
    { [external_id |-> None, source |-> src, title |-> t,
       abstract |-> None, authors |-> <<>>]
         : src \in {"arxiv", "upload"}, t \in {"ResNet", "GAN notes"} }

Queries == {"attention", "vision"}
TopKs == {1, 2, ChatTopK}
Thresholds == {DefaultThreshold, 16}

\* ------------------------------------------------------------ sequence tools
Reverse(s) == [i \in 1..Len(s) |-> s[Len(s) + 1 - i]]

Take(s, n) == SubSeq(s, 1, IF n < Len(s) THEN n ELSE Len(s))

\* ---------------------------------------------------- str(x) and float(s)
\* str of one number, as a sequence of characters
str(x) ==
    LET a == IF x < 0 THEN 0 - x ELSE x
        d == <<"0", "1", "2", "3", "4", "5", "6", "7", "8", "9">>
        digits == IF a >= 10 THEN <<d[(a \div 10) + 1], d[(a % 10) + 1]>>
                  ELSE <<d[a + 1]>>
    IN  (IF x < 0 THEN <<"-">> ELSE <<>>) \o digits

DigitVal(c) ==
    CASE c = "0" -> 0 [] c = "1" -> 1 [] c = "2" -> 2 [] c = "3" -> 3
      [] c = "4" -> 4 [] c = "5" -> 5 [] c = "6" -> 6 [] c = "7" -> 7
      [] c = "8" -> 8 [] c = "9" -> 9

RECURSIVE Digits(_, _)
Digits(cs, acc) ==
    IF cs = <<>> THEN acc ELSE Digits(Tail(cs), 10 * acc + DigitVal(Head(cs)))

\* the number a character sequence denotes (np.array(..., dtype=float32))
float(cs) ==
    IF Head(cs) = "-" THEN 0 - Digits(Tail(cs), 0) ELSE Digits(cs, 0)

RECURSIVE join(_, _)
\* sep.join(parts) on character sequences
join(sep, parts) ==
    IF parts = <<>> THEN <<>>
    ELSE IF Len(parts) = 1 THEN parts[1]
    ELSE parts[1] \o sep \o join(sep, Tail(parts))

RECURSIVE split(_, _, _)
\* s.split(sep): cur is the field being read
split(cs, sep, cur) ==
    IF cs = <<>> THEN <<cur>>
    ELSE IF Head(cs) = sep THEN <<cur>> \o split(Tail(cs), sep, <<>>)
    ELSE split(Tail(cs), sep, Append(cur, Head(cs)))

_vec_to_str(v) == join(<<",">>, [i \in 1..Len(v) |-> str(v[i])])

_str_to_vec(s) ==
    LET fields == split(s, ",", <<>>)
    IN  [i \in 1..Len(fields) |-> float(fields[i])]

\* ------------------------------------------------------------------ embedder
RECURSIVE str_join(_, _)
\* sep.join(parts) on strings
str_join(sep, parts) ==
    IF parts = <<>> THEN ""
    ELSE IF Len(parts) = 1 THEN parts[1]
    ELSE parts[1] \o sep \o str_join(sep, Tail(parts))

\* Author lists a request can carry
AuthorLists == {<<>>, <<"Vaswani">>, <<"Vaswani", "Shazeer">>}

Quoted(list) == [i \in 1..Len(list) |-> "\"" \o list[i] \o "\""]

\* json.dumps of a list of strings
json_dumps(list) == "[" \o str_join(", ", Quoted(list)) \o "]"

\* json.loads: the list the text encodes; Invalid when it encodes none
Invalid == <<"JSONDecodeError">>
json_loads(text) ==
    IF \E l \in AuthorLists : json_dumps(l) = text
    THEN CHOOSE l \in AuthorLists : json_dumps(l) = text
    ELSE Invalid

\* Python truthiness of a nullable text column
Truthy(col) == col # None /\ col # ""

_paper_to_text(paper) ==
    LET p1 == <<IF Truthy(paper.title) THEN paper.title ELSE "">>
        p2 == IF Truthy(paper.abstract) THEN <<paper.abstract>> ELSE <<>>
        authors == json_loads(paper.authors)
        p3 == IF Truthy(paper.authors)
              THEN IF authors # Invalid
                   THEN <<"Authors: " \o str_join(", ", authors)>>
                   ELSE <<paper.authors>>
              ELSE <<>>
    IN  str_join(" ", p1 \o p2 \o p3)

\* SentenceTransformer.encode(text, normalize_embeddings=True): a fixed
\* deterministic map from text to a vector of norm 5.
encode(text) ==
    CASE text = "Attention transformers Authors: Vaswani" -> <<3, 4>>
      [] text = "ResNet Authors: "                        -> <<4, -3>>
      [] text = "notes summary"                           -> <<3, 4>>
      [] text = "notes deep nets"                         -> <<-4, 3>>
      [] text = "scan"                                    -> <<0, 5>>
      [] text = "attention"                               -> <<5, 0>>
      [] text = "vision"                                  -> <<0, 5>>
      [] OTHER                                            -> <<-3, -4>>

embed_text(text) == encode(text)

RECURSIVE dot_upto(_, _, _)
dot_upto(a, b, n) == IF n = 0 THEN 0 ELSE a[n] * b[n] + dot_upto(a, b, n - 1)

\* the dot product of two vectors of one length
dot(a, b) == dot_upto(a, b, Len(a))

\* --------------------------------------------------------------------- state
VARIABLES
    papers,             \* set of Paper rows
    next_paper_id,      \* papers.id sequence
    workspaces,         \* set of Workspace rows
    next_workspace_id,
    workspace_papers,   \* WorkspacePaper rows, in table order
    vector_embeddings,  \* VectorEmbedding rows, in table order
    next_embedding_id,
    documents,          \* number of Document rows
    conversation_history, \* ConversationHistory rows, in order of created_at
    _model,             \* the process-wide SentenceTransformer, or None
    threads,            \* where each request thread stands inside embed_text
    utcnow,             \* datetime.utcnow()
    calls,              \* create_embedding calls between their query and their commit
    requests,           \* requests received that the event loop has not started
    event_loop,         \* the request whose coroutine holds the event loop thread, or Idle
    linking,            \* add_paper_to_workspace calls between their query and commit
    response            \* what the last completed request returned

vars == <<papers, next_paper_id, workspaces, next_workspace_id, workspace_papers,
          vector_embeddings, next_embedding_id, documents, conversation_history,
          _model, threads, utcnow, calls, requests, event_loop, linking, response>>

store == <<papers, next_paper_id, workspaces, next_workspace_id, workspace_papers,
           vector_embeddings, next_embedding_id, documents, conversation_history>>

\* the event loop thread runs no coroutine
Idle == [op |-> "idle", user |-> 0, body |-> "", n |-> 0]

\* what only the server process holds
server == <<requests, event_loop, linking>>

NoResponse ==
    [op |-> "none", status |-> 0, user |-> 0, paper_id |-> 0, workspace_id |-> 0,
     top_k |-> 0, threshold |-> 0, filtered |-> FALSE, q_vec |-> <<>>,
     rows |-> <<>>, scores |-> <<>>, ranked |-> <<>>, out |-> <<>>,
     embedded |-> FALSE, vector |-> <<>>, existing |-> 0, raised |-> None,
     create_emb |-> FALSE, failed |-> FALSE, logged |-> FALSE,
     context |-> <<>>, history |-> <<>>, sent |-> <<>>, limit |-> 0, title |-> ""]

Init ==
    /\ papers = {}
    /\ next_paper_id = 1
    /\ workspaces = {}
    /\ next_workspace_id = 1
    /\ workspace_papers = <<>>
    /\ vector_embeddings = <<>>
    /\ next_embedding_id = 1
    /\ documents = 0
    /\ conversation_history = <<>>
    /\ _model = None
    /\ threads = [t \in Threads |-> "idle"]
    /\ utcnow = 0
    /\ calls = <<>>
    /\ requests = {}
    /\ event_loop = Idle
    /\ linking = <<>>
    /\ response = NoResponse


\* ---------------------------------------------------------- relational store
Min(S) == CHOOSE x \in S : \A y \in S : x <= y

\* db.query(Paper).filter_by(...).first(): the matching row of lowest id, or None
NoPaper ==
    [id |-> 0, external_id |-> None, source |-> None, title |-> None,
     authors |-> None, abstract |-> None, owner_id |-> 0]

first_paper(match) ==
    IF match = {} THEN NoPaper
    ELSE CHOOSE p \in match : \A q \in match : p.id <= q.id

\* index in table order of the first VectorEmbedding row of paper_id, 0 for None
first_embedding(embs, paper_id) ==
    LET idx == {i \in DOMAIN embs : embs[i].paper_id = paper_id}
    IN  IF idx = {} THEN 0 ELSE Min(idx)

\* fault: the relationship has no delete cascade, the dependent rows stay
delete_where_kept(table, paper_id) == table

\* cascade of a deleted paper: the rows of table of other papers, in table order
delete_where(table, paper_id) == SelectSeq(table, LAMBDA r : r.paper_id # paper_id)

\* ----------------------------------------------------------------- embedder
\* What one embed_text call does: the model loads (first use) and encodes, the
\* load raises, or the inference raises.
EmbedOutcomes == {"ok", "load_error", "encode_error"}

CanHappen(outcome, model) == outcome = "load_error" => model = None

\* _model after a call to _get_model() with that outcome
_get_model(model, outcome) ==
    IF model = None /\ outcome = "load_error" THEN None ELSE "loaded"

\* ------------------------------------------- embed_text on the request threads
\* One thread's call of embed_text, statement by statement. The synchronous
\* endpoints run on pool threads, and _get_model takes no lock.
\* _get_model: `if _model is None`
embed_text_check(t) ==
    /\ threads[t] = "idle"
    /\ threads' = [threads EXCEPT ![t] = IF _model = None THEN "load" ELSE "encode"]
    /\ UNCHANGED <<store, _model, utcnow, server, calls, response>>

\* _get_model: SentenceTransformer(MODEL_NAME) constructs a model or raises
embed_text_load(t, outcome) ==
    /\ threads[t] = "load"
    /\ threads' = [threads EXCEPT ![t] = IF outcome = "ok" THEN "assign" ELSE "idle"]
    /\ UNCHANGED <<store, _model, utcnow, server, calls, response>>

\* _get_model: `_model = ` the model this thread constructed
embed_text_assign(t) ==
    /\ threads[t] = "assign"
    /\ _model' = "loaded"
    /\ threads' = [threads EXCEPT ![t] = "encode"]
    /\ UNCHANGED <<store, utcnow, server, calls, response>>

\* `return _model`, then .encode(text, ...) returns or raises
embed_text_encode(t) ==
    /\ threads[t] = "encode"
    /\ threads' = [threads EXCEPT ![t] = "idle"]
    /\ UNCHANGED <<store, _model, utcnow, server, calls, response>>

\* ------------------------------------------------- create_embedding (pieces)
\* fault: the column is declared with onupdate = datetime.utcnow
update_embedding_touched(embs, i, vector) ==
    [embs EXCEPT ![i].vector = _vec_to_str(vector), ![i].model_name = MODEL_NAME,
                 ![i].created_at = utcnow]

\* fault: the UPDATE is lost, the row keeps its old vector
update_embedding_skipped(embs, i, vector) == embs

\* the UPDATE of the row at index i
update_embedding(embs, i, vector) ==
    [embs EXCEPT ![i].vector = _vec_to_str(vector), ![i].model_name = MODEL_NAME]

\* fault: paper_id without its unique constraint
insert_allowed_unchecked(embs, live_papers, paper_id) ==
    \E p \in live_papers : p.id = paper_id

\* the INSERT: the foreign key and the unique constraint on paper_id are
\* checked by the database at commit
insert_allowed(embs, live_papers, paper_id) ==
    /\ \E p \in live_papers : p.id = paper_id
    /\ first_embedding(embs, paper_id) = 0

insert_embedding(embs, id, paper_id, vector) ==
    Append(embs, [id |-> id, paper_id |-> paper_id,
                  vector |-> _vec_to_str(vector), model_name |-> MODEL_NAME,
                  created_at |-> utcnow])

\* create_embedding(db, paper) run without interruption on tables embs, with
\* the id sequence at next_id: the tables after it, and whether it raised
create_embedding(embs, next_id, live_papers, paper, outcome) ==
    IF outcome # "ok"
    THEN [embs |-> embs, next_id |-> next_id, raised |-> TRUE]
    ELSE LET vector   == embed_text(_paper_to_text(paper))
             existing == first_embedding(embs, paper.id)
         IN  IF existing # 0
             THEN [embs |-> update_embedding(embs, existing, vector),
                   next_id |-> next_id, raised |-> FALSE]
             ELSE IF insert_allowed(embs, live_papers, paper.id)
             THEN [embs |-> insert_embedding(embs, next_id, paper.id, vector),
                   next_id |-> next_id + 1, raised |-> FALSE]
             ELSE [embs |-> embs, next_id |-> next_id + 1, raised |-> TRUE]

\* ------------------------------------------------------------ _link_to_workspace
link_exists(links, workspace_id, paper_id) ==
    \E i \in DOMAIN links :
        links[i].workspace_id = workspace_id /\ links[i].paper_id = paper_id

\* fault: the workspace is looked up by id alone
owned_workspace_any(workspace_id, owner_id) ==
    \E w \in workspaces : w.id = workspace_id

owned_workspace(workspace_id, owner_id) ==
    \E w \in workspaces : w.id = workspace_id /\ w.owner_id = owner_id

new_link(workspace_id, paper_id) ==
    [workspace_id |-> workspace_id, paper_id |-> paper_id]

\* ------------------------------------------------------------------ handlers
\* fault: the call is not wrapped in try/except
escapes_uncaught(raised) == raised

\* try: create_embedding(db, paper) / except Exception: logger.warning(...):
\* whether an exception raised inside leaves the try statement
escapes(raised) == FALSE

Reply(op, status, user, paper_id, workspace_id) ==
    [NoResponse EXCEPT !.op = op, !.status = status, !.user = user,
                       !.paper_id = paper_id, !.workspace_id = workspace_id]


create_workspace(user) ==
    /\ workspaces' = workspaces \cup {[id |-> next_workspace_id, owner_id |-> user]}
    /\ next_workspace_id' = next_workspace_id + 1
    /\ response' = Reply("create_workspace", 201, user, 0, next_workspace_id)
    /\ UNCHANGED <<papers, next_paper_id, workspace_papers, vector_embeddings,
                   next_embedding_id, documents, conversation_history, _model,
                   threads, utcnow, server, calls>>

\* Paper(external_id = data.external_id, ...) as stored with that id
Paper(id, data, owner_id) ==
    [id |-> id, external_id |-> data.external_id, source |-> data.source,
     title |-> data.title, authors |-> json_dumps(data.authors),
     abstract |-> data.abstract, owner_id |-> owner_id]

\* fault: the duplicate check never matches
same_paper_never(p, data, user) == FALSE

\* .filter_by(external_id = data.external_id, source = data.source,
\*            owner_id = current_user.id)
same_paper(p, data, user) ==
    /\ p.external_id = data.external_id
    /\ p.source = data.source
    /\ p.owner_id = user

\* the handler, as far as the database and the embedder go
import_paper_body(user, data, workspace_id, outcome) ==
    LET existing == first_paper({p \in papers : same_paper(p, data, user)})
        created  == Paper(next_paper_id, data, user)
        paper    == IF existing # NoPaper THEN existing ELSE created
        papers1  == IF existing # NoPaper THEN papers ELSE papers \cup {created}
        embedding == IF existing # NoPaper
                     THEN [embs |-> vector_embeddings, next_id |-> next_embedding_id,
                           raised |-> FALSE]
                     ELSE create_embedding(vector_embeddings, next_embedding_id,
                                           papers1, created, outcome)
        link     == workspace_id # 0
        found    == owned_workspace(workspace_id, user)
        add      == link /\ found /\ ~link_exists(workspace_papers, workspace_id, paper.id)
    IN  \E emb \in {embedding}, escaped \in {escapes(embedding.raised)} :
        /\ existing = NoPaper => CanHappen(outcome, _model)
        /\ existing # NoPaper => outcome = "ok"
        /\ papers' = papers1
        /\ next_paper_id' = IF existing # NoPaper THEN next_paper_id ELSE next_paper_id + 1
        /\ vector_embeddings' = emb.embs
        /\ next_embedding_id' = emb.next_id
        /\ _model' = IF existing # NoPaper THEN _model ELSE _get_model(_model, outcome)
        /\ workspace_papers' =
              IF add /\ ~escaped
              THEN Append(workspace_papers, new_link(workspace_id, paper.id))
              ELSE workspace_papers
        /\ response' = [Reply("import_paper",
                              IF escaped THEN 500
                              ELSE IF link /\ ~found THEN 404 ELSE 200,
                              user, paper.id, IF link THEN workspace_id ELSE 0)
                          EXCEPT !.title = data.title,
                                 !.embedded = existing = NoPaper /\ ~emb.raised,
                                 !.failed = emb.raised,
                                 !.logged = emb.raised /\ ~escaped]
        /\ UNCHANGED <<workspaces, next_workspace_id, documents,
                       conversation_history, threads, utcnow, calls>>

\* POST /papers/import
import_paper(user, data, workspace_id, outcome) ==
    import_paper_body(user, data, workspace_id, outcome) /\ UNCHANGED server

upload_pdf_body(user, file, workspace_id, ai_summary, create_emb, outcome) ==
    LET link    == workspace_id # 0
        found   == owned_workspace(workspace_id, user)
        paper   == [id |-> next_paper_id, external_id |-> None, source |-> "upload",
                    title |-> file.title,
                    authors |-> None,
                    abstract |-> IF Truthy(ai_summary) THEN ai_summary ELSE file.text,
                    owner_id |-> user]
        papers1 == papers \cup {paper}
        embed   == create_emb /\ file.text # ""
        embedding == IF embed
                     THEN create_embedding(vector_embeddings, next_embedding_id,
                                           papers1, paper, outcome)
                     ELSE [embs |-> vector_embeddings, next_id |-> next_embedding_id,
                           raised |-> FALSE]
    IN  \E emb \in {embedding}, escaped \in {escapes(embedding.raised)} :
        /\ ai_summary # None => file.text # ""
        /\ IF link /\ ~found
           THEN /\ outcome = "ok"
                /\ response' = Reply("upload_pdf", 404, user, 0, workspace_id)
                /\ UNCHANGED <<store, _model, threads, utcnow, calls>>
           ELSE /\ IF embed THEN CanHappen(outcome, _model) ELSE outcome = "ok"
                /\ documents' = documents + 1
                /\ papers' = papers1
                /\ next_paper_id' = next_paper_id + 1
                /\ workspace_papers' =
                      IF link THEN Append(workspace_papers,
                                          new_link(workspace_id, paper.id))
                      ELSE workspace_papers
                /\ vector_embeddings' = emb.embs
                /\ next_embedding_id' = emb.next_id
                /\ _model' = IF embed THEN _get_model(_model, outcome) ELSE _model
                /\ response' = [Reply("upload_pdf", IF escaped THEN 500 ELSE 200,
                                      user, paper.id,
                                      IF link THEN workspace_id ELSE 0)
                                  EXCEPT !.embedded = embed /\ ~emb.raised,
                                         !.failed = emb.raised,
                                         !.logged = emb.raised /\ ~escaped,
                                         !.create_emb = create_emb]
                /\ UNCHANGED <<workspaces, next_workspace_id, conversation_history,
                               threads, utcnow, calls>>

\* POST /upload/pdf
upload_pdf(user, file, workspace_id, ai_summary, create_emb, outcome) ==
    /\ upload_pdf_body(user, file, workspace_id, ai_summary, create_emb, outcome)
    /\ UNCHANGED server

delete_paper(user, paper_id) ==
    LET paper == first_paper({p \in papers : p.id = paper_id /\ p.owner_id = user})
    IN  IF paper = NoPaper
        THEN /\ response' = Reply("delete_paper", 404, user, paper_id, 0)
             /\ UNCHANGED <<store, _model, threads, utcnow, server, calls>>
        ELSE /\ papers' = papers \ {paper}
             /\ workspace_papers' =
                   delete_where(workspace_papers, paper_id)
             /\ vector_embeddings' =
                   delete_where(vector_embeddings, paper_id)
             /\ response' = Reply("delete_paper", 204, user, paper_id, 0)
             /\ UNCHANGED <<next_paper_id, workspaces, next_workspace_id,
                            next_embedding_id, documents, conversation_history,
                            _model, threads, utcnow, server, calls>>

add_paper_to_workspace(user, workspace_id, paper_id) ==
    LET found == owned_workspace(workspace_id, user)
        paper == first_paper({p \in papers : p.id = paper_id /\ p.owner_id = user})
        add   == ~link_exists(workspace_papers, workspace_id, paper_id)
    IN  IF ~found \/ paper = NoPaper
        THEN /\ response' = Reply("add_paper_to_workspace", 404, user, paper_id,
                                  workspace_id)
             /\ UNCHANGED <<store, _model, threads, utcnow, server, calls>>
        ELSE /\ workspace_papers' =
                   IF add THEN Append(workspace_papers,
                                      new_link(workspace_id, paper_id))
                   ELSE workspace_papers
             /\ response' = Reply("add_paper_to_workspace", 201, user, paper_id,
                                  workspace_id)
             /\ UNCHANGED <<papers, next_paper_id, workspaces, next_workspace_id,
                            vector_embeddings, next_embedding_id, documents,
                            conversation_history, _model, threads, utcnow, server, calls>>

\* ------------------------------------------- create_embedding, called directly
\* The Paper objects a caller can hold for stored papers: the row as stored, or
\* the row with a title the caller has set on the object.
Titles == {"Survey"}

Held == papers \cup {[p EXCEPT !.title = t] : p \in papers, t \in Titles}

Embedded(op, status, paper, vector, existing) ==
    [Reply(op, status, paper.owner_id, paper.id, 0)
        EXCEPT !.embedded = status = 200, !.vector = vector, !.existing = existing]

\* create_embedding, lines 77-78: embed the text, query the existing row
create_embedding_begin(paper, outcome) ==
    /\ CanHappen(outcome, _model)
    /\ _model' = _get_model(_model, outcome)
    /\ UNCHANGED <<store, threads, utcnow, server>>
    /\ IF outcome # "ok"
       THEN /\ response' = Embedded("create_embedding", 500, paper, <<>>, 0)
            /\ UNCHANGED calls
       ELSE LET existing == first_embedding(vector_embeddings, paper.id)
            IN  /\ calls' = Append(calls,
                                   [paper_id |-> paper.id, owner_id |-> paper.owner_id,
                                    vector |-> embed_text(_paper_to_text(paper)),
                                    existing |-> IF existing = 0 THEN 0
                                                 ELSE vector_embeddings[existing].id])
                /\ UNCHANGED response

Without(s, i) == SubSeq(s, 1, i - 1) \o SubSeq(s, i + 1, Len(s))

\* create_embedding, lines 80-96: the UPDATE of the row read, or the INSERT
create_embedding_commit(i) ==
    LET call  == calls[i]
        row   == {j \in DOMAIN vector_embeddings :
                     vector_embeddings[j].id = call.existing}
        paper == [id |-> call.paper_id, owner_id |-> call.owner_id]
        ok    == IF call.existing # 0 THEN row # {}
                 ELSE insert_allowed(vector_embeddings, papers, call.paper_id)
    IN  /\ calls' = Without(calls, i)
        /\ vector_embeddings' =
              IF ~ok THEN vector_embeddings
              ELSE IF call.existing # 0
              THEN update_embedding(vector_embeddings, Min(row), call.vector)
              ELSE insert_embedding(vector_embeddings, next_embedding_id,
                                    call.paper_id, call.vector)
        /\ next_embedding_id' =
              IF call.existing = 0 THEN next_embedding_id + 1 ELSE next_embedding_id
        /\ response' = Embedded("create_embedding", IF ok THEN 200 ELSE 500, paper,
                                _vec_to_str(call.vector), call.existing)
        /\ UNCHANGED <<papers, next_paper_id, workspaces, next_workspace_id,
                       workspace_papers, documents, conversation_history, _model,
                       threads, utcnow, server>>

\* ------------------------------------------------------------------ retrieval
\* fault: the owner filter is missing from the query
owned_by_anyone(paper, owner_id) == TRUE

\* .filter(Paper.owner_id == owner_id)
owned_by(paper, owner_id) == paper.owner_id = owner_id

\* fault: the source paper is not filtered out of the query
not_source_unfiltered(row, paper_id) == TRUE

\* .filter(VectorEmbedding.paper_id != paper_id)
not_source(row, paper_id) == row.paper_id # paper_id

\* fault: the join without the workspace filter
linked_anywhere(link, paper_id, workspace_id) == link.paper_id = paper_id

\* .join(WorkspacePaper, ...).filter(WorkspacePaper.workspace_id == workspace_id)
linked(link, paper_id, workspace_id) ==
    link.paper_id = paper_id /\ link.workspace_id = workspace_id

\* .join(Paper, VectorEmbedding.paper_id == Paper.id): the paper of a row
joined(row) == {p \in papers : p.id = row.paper_id}

candidate(row) == [paper_id |-> row.paper_id, vector |-> row.vector]

\* db.query(VectorEmbedding, Paper).join(Paper).filter(owner).all(): one row
\* per embedding of a paper of owner_id, in the order of vector_embeddings
fetch_owned(embs, owner_id) ==
    LET hit == SelectSeq(embs, LAMBDA e : \E p \in joined(e) : owned_by(p, owner_id))
    IN  [i \in 1..Len(hit) |-> candidate(hit[i])]

RECURSIVE fetch_linked(_, _, _)
\* the same joined with WorkspacePaper: one row per (embedding, link) pair
fetch_linked(rows, links, workspace_id) ==
    IF rows = <<>> THEN <<>>
    ELSE LET r == Head(rows)
             n == Len(SelectSeq(links, LAMBDA l : linked(l, r.paper_id, workspace_id)))
         IN  [i \in 1..n |-> r] \o fetch_linked(Tail(rows), links, workspace_id)

\* the rows of the owner's papers other than paper_id
fetch_others(embs, owner_id, paper_id) ==
    SelectSeq(fetch_owned(embs, owner_id), LAMBDA r : not_source(r, paper_id))

\* fault: the early return on an empty row list is missing
no_rows_unchecked(rows) == FALSE

\* `if not rows: return []`
no_rows(rows) == rows = <<>>

\* the length of the array _str_to_vec gives for a row
dim(row) == Len(_str_to_vec(row.vector))

\* np.stack raises ValueError on an empty list and on arrays of different shapes
stack_raises(rows) ==
    \/ rows = <<>>
    \/ \E i \in DOMAIN rows : dim(rows[i]) # dim(rows[1])

\* matrix @ q_vec raises ValueError when the row length is not the length of q_vec
matmul_raises(rows, q_vec) == dim(rows[1]) # Len(q_vec)

\* matrix @ q_vec
matmul(rows, q_vec) == [i \in 1..Len(rows) |-> dot(_str_to_vec(rows[i].vector), q_vec)]

Perms(n) == {p \in [1..n -> 1..n] : \A i, j \in 1..n : p[i] = p[j] => i = j}

\* fault: the scores are never sorted, the rows stay in fetch order
argsort_unsorted(scores) == {[i \in 1..Len(scores) |-> i]}

\* np.argsort(scores): an index order that sorts scores ascending; the default
\* sort kind promises no order among equal scores
argsort(scores) ==
    {p \in Perms(Len(scores)) :
        \A i, j \in 1..Len(scores) : i < j => scores[p[i]] <= scores[p[j]]}

\* fault: the [::-1] is missing, lowest score first
ranking_ascending(order) == order

\* np.argsort(scores)[::-1]
ranking(order) == Reverse(order)

\* fault: off by one in the slice, ranked[:top_k - 1]
truncate_short(ranked, top_k) == Take(ranked, top_k - 1)

\* ranked[:top_k]
truncate(ranked, top_k) == Take(ranked, top_k)

pairs(rows, scores, idx) ==
    [k \in 1..Len(idx) |-> [paper_id |-> rows[idx[k]].paper_id, score |-> scores[idx[k]]]]

\* [(papers[i], scores[i]) for i in ranked[:top_k] if scores[i] >= threshold]
ranked_above(rows, scores, ranked, top_k, threshold) ==
    pairs(rows, scores,
          SelectSeq(truncate(ranked, top_k), LAMBDA i : scores[i] >= threshold))

\* [(papers[i], scores[i]) for i in ranked[:top_k]]
ranked_all(rows, scores, ranked, top_k) ==
    pairs(rows, scores, truncate(ranked, top_k))

\* The request a retrieval response answers
Asked(op, user, paper_id, workspace_id, top_k, threshold, filtered) ==
    [NoResponse EXCEPT !.op = op, !.user = user, !.paper_id = paper_id,
                       !.workspace_id = workspace_id, !.top_k = top_k,
                       !.threshold = threshold, !.filtered = filtered]

\* fault: the exception is caught and the call answers with what it has
Raised_masked(ask, exc) == [ask EXCEPT !.status = 200, !.raised = exc]

\* an exception that leaves the handler: the request ends with a server error
Raised(ask, exc) == [ask EXCEPT !.status = 500, !.raised = exc]

Returned(ask, q_vec, rows, scores, ranked, out) ==
    [ask EXCEPT !.status = 200, !.q_vec = q_vec, !.rows = rows, !.scores = scores,
                !.ranked = ranked, !.out = out]

\* the list comprehension that ends the operation asked
result(ask, rows, scores, ranked) ==
    IF ask.filtered
    THEN ranked_above(rows, scores, ranked, ask.top_k, ask.threshold)
    ELSE ranked_all(rows, scores, ranked, ask.top_k)

\* the part the three operations share, rows fetched and query vector in hand:
\* every way the call can end
answers(ask, q_vec, rows) ==
    IF no_rows(rows) THEN {Returned(ask, q_vec, rows, <<>>, <<>>, <<>>)}
    ELSE IF stack_raises(rows) \/ matmul_raises(rows, q_vec)
    THEN {Raised(ask, "ValueError")}
    ELSE UNION {UNION {{Returned(ask, q_vec, rows, scores, ranked,
                                 result(ask, rows, scores, ranked))
                           : ranked \in {ranking(order)}}
                         : order \in argsort(scores)}
                  : scores \in {matmul(rows, q_vec)}}

respond(ask, query_vector, fetched) ==
    \E q_vec \in {query_vector}, rows \in {fetched} :
       response' \in answers(ask, q_vec, rows)

semantic_search(query, owner_id, top_k, threshold, outcome) ==
    LET ask == Asked("semantic_search", owner_id, 0, 0, top_k, threshold, TRUE)
    IN  /\ CanHappen(outcome, _model)
        /\ _model' = _get_model(_model, outcome)
        /\ UNCHANGED <<store, threads, utcnow, server, calls>>
        /\ IF outcome # "ok"
           THEN response' = Raised(ask, "EmbeddingUnavailable")
           ELSE respond(ask, embed_text(query),
                        fetch_owned(vector_embeddings, owner_id))

workspace_semantic_search(query, workspace_id, owner_id, top_k, outcome) ==
    LET ask == Asked("workspace_semantic_search", owner_id, 0, workspace_id, top_k, 0,
                     FALSE)
    IN  /\ CanHappen(outcome, _model)
        /\ _model' = _get_model(_model, outcome)
        /\ UNCHANGED <<store, threads, utcnow, server, calls>>
        /\ IF outcome # "ok"
           THEN response' = Raised(ask, "EmbeddingUnavailable")
           ELSE respond(ask, embed_text(query),
                        fetch_linked(fetch_owned(vector_embeddings, owner_id),
                                     workspace_papers, workspace_id))

\* fault: the source paper is embedded again instead of read from its row
get_related_papers_embeds(paper_id, owner_id, top_k) ==
    LET ask == Asked("get_related_papers", owner_id, paper_id, 0, top_k, 0, FALSE)
    IN  \E outcome \in EmbedOutcomes :
           /\ CanHappen(outcome, _model)
           /\ _model' = _get_model(_model, outcome)
           /\ UNCHANGED <<store, threads, utcnow, server, calls>>
           /\ IF outcome # "ok"
              THEN response' = Raised(ask, "EmbeddingUnavailable")
              ELSE respond(ask, embed_text("vision"),
                           fetch_others(vector_embeddings, owner_id, paper_id))

get_related_papers(paper_id, owner_id, top_k) ==
    LET ask == Asked("get_related_papers", owner_id, paper_id, 0, top_k, 0, FALSE)
        src == first_embedding(vector_embeddings, paper_id)
    IN  /\ UNCHANGED <<store, _model, threads, utcnow, server, calls>>
        /\ IF src = 0
           THEN response' = Returned(ask, <<>>, <<>>, <<>>, <<>>, <<>>)
           ELSE respond(ask, _str_to_vec(vector_embeddings[src].vector),
                        fetch_others(vector_embeddings, owner_id, paper_id))

\* ----------------------------------------------------------------------- chat
\* chat_with_context: the model answers, or the call raises RuntimeError
LlmOutcomes == {"ok", "error"}

\* the fallback query: Paper joined with WorkspacePaper, one row per link of
\* the workspace (no owner filter)
all_papers(links, workspace_id) ==
    LET hit == SelectSeq(links, LAMBDA l : l.workspace_id = workspace_id)
    IN  [i \in 1..Len(hit) |-> hit[i].paper_id]

\* fault: the linked papers are appended to the ranked ones
paper_dicts_merged(relevant, links, workspace_id) ==
    [k \in 1..Len(relevant) |-> relevant[k].paper_id] \o all_papers(links, workspace_id)

\* `if not relevant: ... else: ...`: the papers handed to the LLM
paper_dicts(relevant, links, workspace_id) ==
    IF relevant = <<>> THEN all_papers(links, workspace_id)
    ELSE [k \in 1..Len(relevant) |-> relevant[k].paper_id]

\* .filter_by(workspace_id).order_by(created_at.asc()).limit(20)
history_rows(table, workspace_id) ==
    Take(SelectSeq(table, LAMBDA r : r.workspace_id = workspace_id), HistoryLimit)

\* conversation_history[-10:] in chat_with_context: the turns sent to the LLM
recent_turns(history) ==
    SubSeq(history, IF Len(history) > RecentTurns THEN Len(history) - RecentTurns + 1
                    ELSE 1, Len(history))

\* ConversationHistory(workspace_id, role, content) as stored; id is the serial
\* of the table, from which no modelled request deletes
turn(id, workspace_id, role, content) ==
    [id |-> id, workspace_id |-> workspace_id, role |-> role, content |-> content,
     created_at |-> utcnow]

send_message(user, workspace_id, content, outcome, llm) ==
    LET ask == Asked("send_message", user, 0, workspace_id, ChatTopK, 0, FALSE)
    IN  /\ UNCHANGED <<papers, next_paper_id, workspaces, next_workspace_id,
                       workspace_papers, vector_embeddings, next_embedding_id,
                       documents, threads, utcnow, server, calls>>
        /\ IF ~owned_workspace(workspace_id, user)
           THEN /\ outcome = "ok" /\ llm = "ok"
                /\ response' = [ask EXCEPT !.status = 404]
                /\ UNCHANGED <<conversation_history, _model>>
           ELSE /\ CanHappen(outcome, _model)
                /\ _model' = _get_model(_model, outcome)
                /\ IF outcome # "ok"
                   THEN /\ llm = "ok"
                        /\ response' = Raised(ask, "EmbeddingUnavailable")
                        /\ UNCHANGED conversation_history
                   ELSE \E found \in answers(ask, embed_text(content),
                                             fetch_linked(
                                                fetch_owned(vector_embeddings, user),
                                                workspace_papers, workspace_id)) :
                        IF found.status # 200
                        THEN /\ llm = "ok"
                             /\ response' = found
                             /\ UNCHANGED conversation_history
                        ELSE \E told \in {[found EXCEPT
                                  !.context = paper_dicts(found.out, workspace_papers,
                                                          workspace_id),
                                  !.history = history_rows(conversation_history,
                                                           workspace_id),
                                  !.sent = recent_turns(
                                              history_rows(conversation_history,
                                                           workspace_id))]} :
                             IF llm # "ok"
                             THEN /\ response' = [told EXCEPT !.status = 502]
                                  /\ UNCHANGED conversation_history
                             ELSE /\ response' = told
                                  /\ conversation_history' =
                                        conversation_history \o
                                        <<turn(Len(conversation_history) + 1,
                                               workspace_id, "user", content),
                                          turn(Len(conversation_history) + 2,
                                               workspace_id, "assistant", "answer")>>

\* GET /chat/{workspace_id}/history
\* .filter_by(workspace_id).order_by(created_at.asc()).limit(limit)
get_history(user, workspace_id, limit) ==
    /\ UNCHANGED <<store, _model, threads, utcnow, server, calls>>
    /\ response' =
          IF ~owned_workspace(workspace_id, user)
          THEN Reply("get_history", 404, user, 0, workspace_id)
          ELSE [Reply("get_history", 200, user, 0, workspace_id)
                  EXCEPT !.limit = limit,
                         !.history = Take(SelectSeq(conversation_history,
                                            LAMBDA r : r.workspace_id = workspace_id),
                                          limit)]

\* ------------------------------- add_paper_to_workspace on the request threads
\* A `def` route: each call runs on a pool thread with a session of its own, so
\* other requests commit between its query for the link and its insert.
\* lines 136-143: the two ownership checks and the query for the link
add_paper_to_workspace_begin(user, workspace_id, paper_id) ==
    LET found == owned_workspace(workspace_id, user)
        paper == first_paper({p \in papers : p.id = paper_id /\ p.owner_id = user})
    IN  /\ UNCHANGED <<store, _model, threads, utcnow, calls, requests, event_loop>>
        /\ IF ~found \/ paper = NoPaper
           THEN /\ response' = Reply("add_paper_to_workspace", 404, user, paper_id,
                                     workspace_id)
                /\ UNCHANGED linking
           ELSE /\ linking' = Append(linking,
                                     [user |-> user, workspace_id |-> workspace_id,
                                      paper_id |-> paper_id,
                                      exists |-> link_exists(workspace_papers,
                                                             workspace_id, paper_id)])
                /\ UNCHANGED response

\* lines 144-148: `if not exists:` the insert and its commit, which the foreign
\* keys refuse once the paper is gone
add_paper_to_workspace_commit(i) ==
    LET call == linking[i]
        ok   == call.exists \/ \E p \in papers : p.id = call.paper_id
    IN  /\ linking' = Without(linking, i)
        /\ workspace_papers' =
              IF ~call.exists /\ ok
              THEN Append(workspace_papers, new_link(call.workspace_id, call.paper_id))
              ELSE workspace_papers
        /\ response' = Reply("add_paper_to_workspace", IF ok THEN 201 ELSE 500,
                             call.user, call.paper_id, call.workspace_id)
        /\ UNCHANGED <<papers, next_paper_id, workspaces, next_workspace_id,
                       vector_embeddings, next_embedding_id, documents,
                       conversation_history, _model, threads, utcnow, calls,
                       requests, event_loop>>

\* ------------------------------------------------------------- the event loop
\* `uvicorn main:app`: one process, one event loop thread. An `async def`
\* handler runs as a coroutine on that thread and gives it up only at an await;
\* a `def` handler is handed to the thread pool by the loop, which also reads
\* the request and writes the answer.
\* Requests as sent: the route, the user of the token, the body (the title of
\* a PaperImport, the name of an uploaded file) and which of the client's
\* identical requests it is.
LoopRequests ==
    {[op |-> "health", user |-> 0, body |-> "", n |-> 1]}
    \cup {[op |-> "import_paper", user |-> 1, body |-> d.title, n |-> n]
             : d \in ImportInputs, n \in 1..2}
    \cup {[op |-> "upload_pdf", user |-> 1, body |-> f.filename, n |-> 1] : f \in Files}

\* the parsed body of a request
PaperImport(body) == CHOOSE d \in ImportInputs : d.title = body

UploadFile(body) == CHOOSE f \in Files : f.filename = body

\* whether the handler of r reaches create_embedding(db, paper): import_paper
\* for a paper it has just created, upload_pdf for a file with text
embeds(r) ==
    IF r.op = "import_paper"
    THEN \A p \in papers : ~same_paper(p, PaperImport(r.body), r.user)
    ELSE r.op = "upload_pdf" /\ UploadFile(r.body).text # ""

\* the handler of an `async def` route, run to its end
handler(r, outcome) ==
    IF r.op = "import_paper"
    THEN import_paper_body(r.user, PaperImport(r.body), 0, outcome)
    ELSE upload_pdf_body(r.user, UploadFile(r.body), 0, None, TRUE, outcome)

\* the loop thread can pick up a request: no coroutine is running on it
loop_free == event_loop = Idle

\* a client sends a request; the socket holds it until the loop reads it
receive(r) ==
    /\ r \notin requests
    /\ requests' = requests \cup {r}
    /\ UNCHANGED <<store, _model, threads, utcnow, calls, event_loop, linking,
                   response>>

\* GET /health: read by the loop, run in the thread pool, answered by the loop
health(r) ==
    /\ loop_free
    /\ r \in requests /\ r.op = "health"
    /\ requests' = requests \ {r}
    /\ response' = Reply("health", 200, 0, 0, 0)
    /\ UNCHANGED <<store, _model, threads, utcnow, calls, event_loop, linking>>

\* the loop starts the coroutine of import_paper or upload_pdf. A handler that
\* embeds is now inside create_embedding, on the loop thread; one that does not
\* runs to its return.
coroutine_starts(r) ==
    /\ loop_free
    /\ r \in requests /\ r.op \in {"import_paper", "upload_pdf"}
    /\ requests' = requests \ {r}
    /\ UNCHANGED linking
    /\ IF embeds(r)
       THEN /\ event_loop' = r
            /\ UNCHANGED <<store, _model, threads, utcnow, calls, response>>
       ELSE /\ event_loop' = event_loop
            /\ handler(r, "ok")

\* embed_text returns or raises, and the coroutine runs to its return without
\* an await
coroutine_returns(outcome) ==
    /\ ~loop_free
    /\ event_loop' = Idle
    /\ UNCHANGED <<requests, linking>>
    /\ handler(event_loop, outcome)

\* ------------------------------------------------------------- specification
\* Paper requests of users us, with at most maxp paper ids allocated and
\* workspace ids up to maxw.
PaperRequests(us, maxp, maxw) ==
    \/ \E u \in us, d \in ImportInputs, w \in 0..maxw, o \in EmbedOutcomes :
           next_paper_id <= maxp /\ import_paper(u, d, w, o)
    \/ \E u \in us, f \in Files, w \in 0..maxw, e \in BOOLEAN, o \in EmbedOutcomes :
           next_paper_id <= maxp /\ upload_pdf(u, f, w, None, e, o)
    \/ \E u \in us, p \in 1..maxp : delete_paper(u, p)

WorkspaceRequests(us, maxp, maxw) ==
    \/ \E u \in us : next_workspace_id <= maxw /\ create_workspace(u)
    \/ \E u \in us, w \in 1..maxw, p \in 1..maxp : add_paper_to_workspace(u, w, p)

\* The HTTP API, one request at a time.
Next ==
    \/ PaperRequests(Users, MaxPapers, MaxWorkspaces)
    \/ WorkspaceRequests(Users, MaxPapers, MaxWorkspaces)
    \/ \E u \in Users, k \in {1, ChatTopK}, o \in EmbedOutcomes :
           semantic_search("vision", u, k, DefaultThreshold, o)
    \/ \E w \in 1..MaxWorkspaces, u \in Users, k \in {1, ChatTopK},
         o \in EmbedOutcomes : workspace_semantic_search("vision", w, u, k, o)
    \/ \E p \in 1..MaxPapers, u \in Users, k \in {1, ChatTopK} :
           get_related_papers(p, u, k)

Spec == Init /\ [][Next]_vars

\* Paper requests interleaved with direct create_embedding calls, each call in
\* two steps: its query and its commit.
NextConc ==
    \/ PaperRequests({1}, MaxPapers, 0)
    \/ \E p \in Held, o \in EmbedOutcomes :
           Len(calls) < MaxCalls /\ create_embedding_begin(p, o)
    \/ \E i \in DOMAIN calls : create_embedding_commit(i)

SpecConc == Init /\ [][NextConc]_vars

\* One user builds a library and queries it.
NextRank ==
    \/ next_workspace_id <= 1 /\ create_workspace(1)
    \/ \E d \in ImportInputs, w \in 0..1 :
           next_paper_id <= MaxLibrary /\ import_paper(1, d, w, "ok")
    \/ \E f \in Files, w \in 0..1 :
           next_paper_id <= MaxLibrary /\ upload_pdf(1, f, w, None, TRUE, "ok")
    \/ \E q \in Queries, k \in TopKs, t \in Thresholds :
           semantic_search(q, 1, k, t, "ok")
    \/ \E q \in Queries, k \in TopKs : workspace_semantic_search(q, 1, 1, k, "ok")
    \/ \E p \in 1..MaxLibrary, k \in TopKs : get_related_papers(p, 1, k)

SpecRank == Init /\ [][NextRank]_vars

\* Two users share the workspace ids: imports, links and workspace search.
NextWs ==
    \/ WorkspaceRequests(Users, MaxPapers, MaxShared)
    \/ \E u \in Users, d \in ImportInputs, w \in 0..MaxShared,
         o \in {"ok", "encode_error"} :
           next_paper_id <= MaxPapers /\ import_paper(u, d, w, o)
    \/ \E w \in 1..MaxShared, u \in Users, k \in {1, ChatTopK} :
           workspace_semantic_search("vision", w, u, k, "ok")

SpecWs == Init /\ [][NextWs]_vars

\* Two users chat with their workspaces and search their libraries.
NextChat ==
    \/ WorkspaceRequests(Users, MaxPapers, MaxWorkspaces)
    \/ \E u \in Users, d \in ImportInputs, w \in 0..MaxWorkspaces,
         o \in {"ok", "encode_error"} :
           next_paper_id <= MaxPapers /\ import_paper(u, d, w, o)
    \/ \E u \in Users, w \in 1..MaxWorkspaces, o \in EmbedOutcomes, l \in LlmOutcomes :
           /\ Len(conversation_history) < 2 * MaxTurns
           /\ send_message(u, w, "vision", o, l)
    \/ \E u \in Users, o \in EmbedOutcomes :
           semantic_search("vision", u, ChatTopK, DefaultThreshold, o)

SpecChat == Init /\ [][NextChat]_vars

\* Request threads call embed_text concurrently.
NextLoad ==
    \/ \E t \in Threads : embed_text_check(t)
    \/ \E t \in Threads, o \in {"ok", "load_error"} : embed_text_load(t, o)
    \/ \E t \in Threads : embed_text_assign(t)
    \/ \E t \in Threads : embed_text_encode(t)

SpecLoad == Init /\ [][NextLoad]_vars

\* A database that an earlier deployment wrote: the rows of vector_embeddings
\* outlive the process, and a row embedded under another MODEL_NAME keeps the
\* dimension of that model.
LEGACY_MODEL_NAME == "all-mpnet-base-v2"

legacy_vector == <<3, 0, 4>>

stored_row(id, paper, legacy) ==
    [id |-> id, paper_id |-> paper.id,
     vector |-> _vec_to_str(IF legacy THEN legacy_vector
                            ELSE embed_text(_paper_to_text(paper))),
     model_name |-> IF legacy THEN LEGACY_MODEL_NAME ELSE MODEL_NAME,
     created_at |-> 0]

\* user 1's library of two imported papers, both in workspace 1, each embedded
\* by the earlier deployment or by this one
InitLegacy ==
    \E d1, d2 \in ImportInputs, l1, l2 \in BOOLEAN :
       /\ d1 # d2
       /\ papers = {Paper(1, d1, 1), Paper(2, d2, 1)}
       /\ next_paper_id = 3
       /\ workspaces = {[id |-> 1, owner_id |-> 1]}
       /\ next_workspace_id = 2
       /\ workspace_papers = <<new_link(1, 1), new_link(1, 2)>>
       /\ vector_embeddings = <<stored_row(1, Paper(1, d1, 1), l1),
                                stored_row(2, Paper(2, d2, 1), l2)>>
       /\ next_embedding_id = 3
       /\ documents = 0
       /\ conversation_history = <<>>
       /\ _model = None
       /\ threads = [t \in Threads |-> "idle"]
       /\ utcnow = 0
       /\ calls = <<>>
       /\ requests = {}
       /\ event_loop = Idle
       /\ linking = <<>>
       /\ response = NoResponse

NextLegacy ==
    \/ \E d \in ImportInputs, w \in 0..1 :
           next_paper_id <= MaxLibrary /\ import_paper(1, d, w, "ok")
    \/ \E f \in Files, w \in 0..1 :
           next_paper_id <= MaxLibrary /\ upload_pdf(1, f, w, None, TRUE, "ok")
    \/ \E k \in {1, ChatTopK} : semantic_search("vision", 1, k, DefaultThreshold, "ok")
    \/ \E k \in {1, ChatTopK} : workspace_semantic_search("vision", 1, 1, k, "ok")
    \/ \E p \in 1..MaxLibrary, k \in {1, ChatTopK} : get_related_papers(p, 1, k)

SpecLegacy == InitLegacy /\ [][NextLegacy]_vars

\* time passes between two statements
tick ==
    /\ utcnow' = utcnow + 1
    /\ UNCHANGED <<store, _model, threads, server, calls, response>>

\* One user imports papers and re-embeds them while the clock advances.
NextTime ==
    \/ \E d \in ImportInputs : next_paper_id <= MaxPapers /\ import_paper(1, d, 0, "ok")
    \/ \E p \in Held : Len(calls) < MaxCalls /\ create_embedding_begin(p, "ok")
    \/ \E i \in DOMAIN calls : create_embedding_commit(i)
    \/ utcnow < MaxTime /\ tick

SpecTime == Init /\ [][NextTime]_vars

\* One user fills the library by hand: manual entries and uploads.
NextManual ==
    \/ \E d \in ManualEntries :
           next_paper_id <= MaxLibrary /\ import_paper(1, d, 0, "ok")
    \/ \E f \in Files :
           next_paper_id <= MaxLibrary /\ upload_pdf(1, f, 0, None, TRUE, "ok")
    \/ \E p \in 1..MaxLibrary : delete_paper(1, p)

SpecManual == Init /\ [][NextManual]_vars

\* The server under concurrent clients: requests arrive at any time and the
\* event loop serves them.
NextLoop ==
    \/ \E r \in LoopRequests : receive(r)
    \/ \E r \in requests : health(r)
    \/ \E r \in requests : next_paper_id <= MaxPapers /\ coroutine_starts(r)
    \/ \E o \in EmbedOutcomes : coroutine_returns(o)

SpecLoop == Init /\ [][NextLoop]_vars

\* One user fills a workspace from several clients at once: imports and uploads
\* run on the event loop, add_paper_to_workspace on the pool threads.
NextLink ==
    \/ next_workspace_id <= 1 /\ create_workspace(1)
    \/ \E d \in ImportInputs, w \in 0..1 :
           next_paper_id <= MaxPapers /\ import_paper(1, d, w, "ok")
    \/ \E f \in Files, w \in 0..1 :
           next_paper_id <= MaxPapers /\ upload_pdf(1, f, w, None, TRUE, "ok")
    \/ \E p \in 1..MaxPapers : delete_paper(1, p)
    \/ \E p \in 1..MaxPapers :
           Len(linking) < MaxLinking /\ add_paper_to_workspace_begin(1, 1, p)
    \/ \E i \in DOMAIN linking : add_paper_to_workspace_commit(i)
    \/ workspace_semantic_search("vision", 1, 1, ChatTopK, "ok")

SpecLink == Init /\ [][NextLink]_vars

\* One user talks to a workspace for a long time and reads the history back.
NextHistory ==
    \/ next_workspace_id <= 1 /\ create_workspace(1)
    \/ \E q \in Queries, l \in LlmOutcomes :
           /\ Len(conversation_history) < 2 * MaxExchanges
           /\ send_message(1, 1, q, "ok", l)
    \/ \E n \in {2, DefaultLimit} : get_history(1, 1, n)

SpecHistory == Init /\ [][NextHistory]_vars

\* ---------------------------------------------------------------- properties
RowsOf(embs, paper_id) == {i \in DOMAIN embs : embs[i].paper_id = paper_id}

HasEmbedding(paper_id) == RowsOf(vector_embeddings, paper_id) # {}

StoredVector(paper_id) ==
    _str_to_vec(vector_embeddings[Min(RowsOf(vector_embeddings, paper_id))].vector)

Linked(paper_id, workspace_id) ==
    \E i \in DOMAIN workspace_papers :
        /\ workspace_papers[i].paper_id = paper_id
        /\ workspace_papers[i].workspace_id = workspace_id

OwnedEmbedded(user) ==
    {p.id : p \in {q \in papers : q.owner_id = user /\ HasEmbedding(q.id)}}

SearchOps == {"semantic_search", "workspace_semantic_search", "get_related_papers"}

Searched(op) == response.op = op /\ response.status = 200

SearchedAny == response.op \in SearchOps /\ response.status = 200

\* the papers the request's filter admits, read from the store
Eligible ==
    CASE response.op = "semantic_search" -> OwnedEmbedded(response.user)
      [] response.op = "workspace_semantic_search" ->
            {id \in OwnedEmbedded(response.user) : Linked(id, response.workspace_id)}
      [] response.op = "get_related_papers" ->
            IF HasEmbedding(response.paper_id)
            THEN OwnedEmbedded(response.user) \ {response.paper_id}
            ELSE {}
      [] OTHER -> {}

Returned_ids == {response.out[k].paper_id : k \in DOMAIN response.out}

ScoreOf(paper_id) == dot(StoredVector(paper_id), response.q_vec)

OneRowPerPaper(embs) ==
    \A i, j \in DOMAIN embs : embs[i].paper_id = embs[j].paper_id => i = j

\* a create_embedding call completes in this step
Commits == Len(calls') < Len(calls)

\* C1: no step of any interleaving of import_paper, upload_pdf, delete_paper and
\* create_embedding calls leaves a paper with two VectorEmbedding rows; a
\* create_embedding call that completes on a paper that has a row adds no row,
\* and when it succeeds that row, in place, holds the call's vector and MODEL_NAME.
C1_AtMostOneEmbeddingPerPaper ==
    [][/\ OneRowPerPaper(vector_embeddings')
       /\ (Commits /\ HasEmbedding(response'.paper_id)) =>
             LET i == Min(RowsOf(vector_embeddings, response'.paper_id))
             IN  /\ Len(vector_embeddings') = Len(vector_embeddings)
                 /\ response'.status = 200 =>
                       vector_embeddings' =
                          [vector_embeddings EXCEPT ![i].vector = response'.vector,
                                                    ![i].model_name = MODEL_NAME]]_vars

\* C1 witness: a completed call has replaced the vector of a paper's only row by
\* the vector of a retitled Paper object.
C1_Witness ==
    /\ response.op = "create_embedding" /\ response.status = 200
    /\ response.existing # 0
    /\ \E p \in papers :
          /\ p.id = response.paper_id
          /\ Cardinality(RowsOf(vector_embeddings, p.id)) = 1
          /\ StoredVector(p.id) # embed_text(_paper_to_text(p))

\* C2: every create_embedding call that succeeds leaves exactly one row for its
\* paper, holding the call's vector and MODEL_NAME; when the paper's row already
\* held that vector and model name, the store is unchanged by the call.
C2_UpsertLatestAndIdempotent ==
    [][(Commits /\ response'.status = 200) =>
          LET p    == response'.paper_id
              old  == RowsOf(vector_embeddings, p)
              rows == RowsOf(vector_embeddings', p)
          IN  /\ Cardinality(rows) = 1
              /\ \A i \in rows : /\ vector_embeddings'[i].vector = response'.vector
                                 /\ vector_embeddings'[i].model_name = MODEL_NAME
              /\ (/\ old # {}
                  /\ \A i \in old : /\ vector_embeddings[i].vector = response'.vector
                                    /\ vector_embeddings[i].model_name = MODEL_NAME)
                 => store' = store]_vars

\* C2 witness: a second call for a paper has rewritten the vector its row held.
C2_Witness ==
    /\ response.op = "create_embedding" /\ response.status = 200
    /\ response.existing # 0
    /\ calls = <<>>
    /\ \E p \in papers :
          /\ p.id = response.paper_id
          /\ HasEmbedding(p.id)
          /\ StoredVector(p.id) = embed_text(_paper_to_text(p))
          /\ response.vector = _vec_to_str(StoredVector(p.id))

\* C3: every retrieval operation returns its pairs in non-increasing order of
\* score, each score being the dot product of the query vector (for
\* get_related_papers the source paper's stored vector) with the returned
\* paper's stored vector, and no admitted paper left out of the result has a
\* score strictly greater than a returned one.
C3_RankedByDescendingScore ==
    SearchedAny =>
       /\ \A k \in 1..(Len(response.out) - 1) :
             response.out[k].score >= response.out[k + 1].score
       /\ \A k \in DOMAIN response.out :
             /\ response.out[k].paper_id \in Eligible
             /\ response.out[k].score = ScoreOf(response.out[k].paper_id)
       /\ (response.op = "get_related_papers" /\ response.out # <<>>) =>
             response.q_vec = StoredVector(response.paper_id)
       /\ \A id \in Eligible \ Returned_ids, k \in DOMAIN response.out :
             ~(ScoreOf(id) > response.out[k].score)

\* C3 witness: three candidates, the two best returned in an order that is not
\* the fetch order, the third left out.
C3_Witness ==
    /\ Searched("semantic_search")
    /\ Len(response.rows) = 3 /\ Len(response.out) = 2
    /\ response.out[1].score > response.out[2].score
    /\ response.out[1].paper_id # response.rows[1].paper_id
    /\ Eligible \ Returned_ids # {}

\* position of a paper in the fetched candidate list
RowIndex(paper_id) ==
    Min({i \in DOMAIN response.rows : response.rows[i].paper_id = paper_id})

\* C4: two returned candidates with identical scores appear in the order in
\* which they were fetched.
C4_TiesKeepFetchOrder ==
    SearchedAny =>
       \A a, b \in DOMAIN response.out :
          (a < b /\ response.out[a].score = response.out[b].score) =>
             RowIndex(response.out[a].paper_id) < RowIndex(response.out[b].paper_id)

\* scores[i] >= threshold, where the operation has a threshold
Passes(i) == response.filtered => response.scores[i] >= response.threshold

\* the threshold applied to the whole ranking, then the truncation to top_k
threshold_then_truncate ==
    pairs(response.rows, response.scores,
          truncate(SelectSeq(response.ranked, Passes), response.top_k))

\* C5: with top_k >= 1 a retrieval operation returns at most
\* min(top_k, number of candidates passing the threshold) pairs, and the list
\* semantic_search builds (truncate, then threshold) is the list that applying
\* the threshold before truncating gives.
C5_TopKAndThresholdCommute ==
    (SearchedAny /\ response.top_k >= 1) =>
       LET passing == Cardinality({i \in DOMAIN response.rows : Passes(i)})
       IN  /\ Len(response.out) <= response.top_k
           /\ Len(response.out) <= passing
           /\ response.out = threshold_then_truncate

\* C5 witness: of three candidates the truncation drops one and the threshold
\* drops another.
C5_Witness ==
    /\ Searched("semantic_search")
    /\ Len(response.rows) = 3 /\ response.top_k = 2 /\ Len(response.out) = 1
    /\ \E i \in DOMAIN response.rows : ~Passes(i)

DefaultSearch == Searched("semantic_search") /\ response.threshold = DefaultThreshold

Smaller(a, b) == IF a < b THEN a ELSE b

C7_GlobalSearchOwnedOnly ==
    Searched("semantic_search") =>
       /\ Returned_ids \subseteq OwnedEmbedded(response.user)
       /\ \A id \in Returned_ids :
             \A p \in papers : p.id = id => p.owner_id = response.user
       /\ {response.rows[i].paper_id : i \in DOMAIN response.rows}
             = OwnedEmbedded(response.user)

\* C7 witness: a user's search returns a paper while another user also has an
\* embedded paper.
C7_Witness ==
    /\ Searched("semantic_search")
    /\ response.out # <<>>
    /\ \E u \in Users \ {response.user} : OwnedEmbedded(u) # {}

\* C8: workspace search returns only papers owned by the asking user, linked to
\* the asked workspace by a WorkspacePaper row, and having a stored embedding.
C8_WorkspaceSearchScoped ==
    Searched("workspace_semantic_search") =>
       \A id \in Returned_ids :
          /\ \E p \in papers : p.id = id /\ p.owner_id = response.user
          /\ Linked(id, response.workspace_id)
          /\ HasEmbedding(id)

\* C8 witness: the search returns a paper while the user has another embedded
\* paper linked only to another workspace.
C8_Witness ==
    /\ Searched("workspace_semantic_search")
    /\ response.out # <<>>
    /\ \E id \in OwnedEmbedded(response.user) :
          /\ ~Linked(id, response.workspace_id)
          /\ \E w \in workspaces : Linked(id, w.id)

\* C9: get_related_papers never returns, and never fetches as a candidate, the
\* source paper.
C9_RelatedExcludesSource ==
    Searched("get_related_papers") =>
       /\ response.paper_id \notin Returned_ids
       /\ \A i \in DOMAIN response.rows : response.rows[i].paper_id # response.paper_id

\* C9 witness: the source is owned by the asking user and embedded, and another
\* paper is returned.
C9_Witness ==
    /\ Searched("get_related_papers")
    /\ response.paper_id \in OwnedEmbedded(response.user)
    /\ response.out # <<>>

\* C10: a retrieval operation whose filter admits no paper, and whose query was
\* embedded, returns the empty list and raises nothing.
C10_NoCandidatesIsEmpty ==
    (/\ response.op \in SearchOps
     /\ response.raised # "EmbeddingUnavailable"
     /\ Eligible = {}) =>
       response.status = 200 /\ response.raised = None /\ response.out = <<>>

\* C10 witness: a search answers with the empty list for a user whose only
\* papers have no embedding.
C10_Witness ==
    /\ response.op \in {"semantic_search", "workspace_semantic_search"}
    /\ response.status = 200 /\ response.out = <<>>
    /\ Eligible = {}
    /\ \E p \in papers : p.owner_id = response.user

\* C11: a get_related_papers call never touches the embedder (the model is
\* neither loaded nor asked, so the call cannot fail for want of it), and for a
\* source paper without a stored embedding it returns the empty list and raises
\* nothing.
C11_RelatedNeedsNoEmbedder ==
    [][response'.op = "get_related_papers" =>
          /\ _model' = _model
          /\ response'.raised # "EmbeddingUnavailable"
          /\ ~HasEmbedding(response'.paper_id) =>
                /\ response'.status = 200
                /\ response'.raised = None
                /\ response'.out = <<>>]_vars

\* C11 witness: related papers asked for a stored paper of the asking user that
\* has no embedding, in a process whose model was never loaded, while another
\* paper of the user's library is stored.
C11_Witness ==
    /\ Searched("get_related_papers")
    /\ response.out = <<>>
    /\ _model = None
    /\ \E p \in papers : /\ p.id = response.paper_id
                         /\ p.owner_id = response.user
                         /\ ~HasEmbedding(p.id)
    /\ \E p \in papers : p.id # response.paper_id /\ p.owner_id = response.user

\* C12: when the embedding of a newly stored paper fails inside import_paper or
\* upload_pdf (the model does not load, or the inference raises), the paper row
\* stays in the library without an embedding, and the request ends as it would
\* have without the failure: 200, with the requested link stored, whenever the
\* requested workspace is one the caller owns (or none was requested).
C12_EmbeddingFailureIsNotFatal ==
    (response.op \in {"import_paper", "upload_pdf"} /\ response.failed) =>
       /\ response.logged
       /\ \E p \in papers : p.id = response.paper_id /\ p.owner_id = response.user
       /\ ~HasEmbedding(response.paper_id)
       /\ ~response.embedded
       /\ (response.workspace_id = 0
              \/ owned_workspace(response.workspace_id, response.user)) =>
             /\ response.status = 200
             /\ response.workspace_id # 0 =>
                   Linked(response.paper_id, response.workspace_id)

\* C12 witness: an import into a workspace whose embedding failed: the paper is
\* stored and linked, the answer is 200, and no embedding row exists.
C12_Witness ==
    /\ response.op = "import_paper" /\ response.failed /\ response.logged
    /\ response.status = 200
    /\ response.workspace_id # 0
    /\ Linked(response.paper_id, response.workspace_id)
    /\ ~HasEmbedding(response.paper_id)

\* C13: when embedding the query text fails, semantic_search,
\* workspace_semantic_search and the chat endpoint end the request with an
\* error: nothing is ranked, no list (full or partial) is returned, the chat
\* fallback hands no paper to the LLM, and nothing is written.
C13_QueryEmbeddingFailureAborts ==
    [][(/\ response'.op \in {"semantic_search", "workspace_semantic_search",
                            "send_message"}
        /\ response'.raised = "EmbeddingUnavailable") =>
          /\ response'.status = 500
          /\ response'.rows = <<>> /\ response'.ranked = <<>>
          /\ response'.out = <<>> /\ response'.context = <<>>
          /\ store' = store]_vars

\* C13 witness: a chat message whose query could not be embedded, sent to a
\* workspace that has linked papers the fallback would have listed.
C13_Witness ==
    /\ response.op = "send_message"
    /\ response.raised = "EmbeddingUnavailable"
    /\ all_papers(workspace_papers, response.workspace_id) # <<>>

\* models constructed so far and still held: one per thread that stands between
\* its SentenceTransformer(...) and its assignment, one for the model in _model
constructed ==
    Cardinality({t \in Threads : threads[t] = "assign"})
       + (IF _model # None THEN 1 ELSE 0)

\* C14: under any interleaving of concurrent first calls of embed_text the
\* model is constructed at most once in the process: no two threads both
\* observe _model as None and both construct a SentenceTransformer.
C14_ModelLoadedOnce == constructed <= 1

PaperIds == {p.id : p \in papers}

\* C16: every VectorEmbedding row and every WorkspacePaper row references a
\* paper that exists; once delete_paper(P) has answered 204, P, its embedding
\* and its links are gone; and no retrieval operation returns a paper that is
\* not stored (paper ids are never reused, so a deleted P is never returned).
C16_EmbeddingsFollowPapers ==
    /\ \A i \in DOMAIN vector_embeddings : vector_embeddings[i].paper_id \in PaperIds
    /\ \A i \in DOMAIN workspace_papers : workspace_papers[i].paper_id \in PaperIds
    /\ PaperIds \subseteq 1..(next_paper_id - 1)
    /\ (response.op = "delete_paper" /\ response.status = 204) =>
          /\ response.paper_id \notin PaperIds
          /\ ~HasEmbedding(response.paper_id)
          /\ \A w \in workspaces : ~Linked(response.paper_id, w.id)
    /\ SearchedAny => Returned_ids \subseteq PaperIds

\* C16 witness: a search returns a paper after another paper, which had an
\* embedding, was deleted.
C16_Witness ==
    /\ SearchedAny
    /\ response.out # <<>>
    /\ Cardinality(papers) < next_paper_id - 1
    /\ Len(vector_embeddings) < next_embedding_id - 1

\* a create_embedding call completes in this step by overwriting the row it read
Overwrites ==
    /\ Commits
    /\ response'.status = 200
    /\ response'.existing # 0

\* the row of the paper of the call that completes, before and after the step
RowBefore == vector_embeddings[Min(RowsOf(vector_embeddings, response'.paper_id))]

RowAfter == vector_embeddings'[Min(RowsOf(vector_embeddings', response'.paper_id))]

\* C17 as claimed: an overwrite keeps the row's id and paper_id and sets its
\* timestamp to the time of the overwrite.
C17_OverwriteUpdatesTimestamp ==
    [][Overwrites =>
          /\ RowAfter.id = RowBefore.id
          /\ RowAfter.paper_id = RowBefore.paper_id
          /\ RowAfter.created_at = utcnow]_vars

\* C17 amended: an overwrite keeps the row's id, paper_id and place in the
\* table and leaves its timestamp, the time the row was created, as it was;
\* only vector and model_name are written.
C17_OverwriteKeepsCreationTime ==
    [][Overwrites =>
          /\ RowAfter.id = RowBefore.id
          /\ RowAfter.id = response'.existing
          /\ RowAfter.paper_id = RowBefore.paper_id
          /\ RowAfter.created_at = RowBefore.created_at
          /\ RowAfter.vector = response'.vector
          /\ RowAfter.model_name = MODEL_NAME
          /\ Len(vector_embeddings') = Len(vector_embeddings)]_vars

\* C17 witness: a row created at an earlier time has been overwritten with
\* another vector and still carries the earlier time.
C17_Witness ==
    /\ response.op = "create_embedding" /\ response.status = 200
    /\ response.existing # 0
    /\ \E i \in DOMAIN vector_embeddings, p \in papers :
          /\ vector_embeddings[i].id = response.existing
          /\ vector_embeddings[i].created_at < utcnow
          /\ vector_embeddings[i].vector = response.vector
          /\ p.id = vector_embeddings[i].paper_id
          /\ response.vector # _vec_to_str(embed_text(_paper_to_text(p)))

\* C18: whenever a create_embedding call for a stored paper completes, however
\* it was interleaved with other calls for that paper, it completes without
\* error and the paper's row holds the vector of that call, the last to commit.
C18_LastWriteWins ==
    [][(Commits /\ response'.paper_id \in PaperIds) =>
          /\ response'.status = 200
          /\ \A i \in RowsOf(vector_embeddings', response'.paper_id) :
                vector_embeddings'[i].vector = response'.vector]_vars

\* the text the claim describes for a paper: title, then the abstract if there
\* is one, then "Authors: a, b, c" if the paper has at least one author
text_as_claimed(paper) ==
    LET authors == json_loads(paper.authors)
        p1 == <<IF Truthy(paper.title) THEN paper.title ELSE "">>
        p2 == IF Truthy(paper.abstract) THEN <<paper.abstract>> ELSE <<>>
        p3 == IF Truthy(paper.authors) /\ authors # Invalid /\ authors # <<>>
              THEN <<"Authors: " \o str_join(", ", authors)>>
              ELSE <<>>
    IN  str_join(" ", p1 \o p2 \o p3)

\* C19: the text embedded for every stored paper is its title, its abstract if
\* present, and an Authors segment only if it has at least one author, joined
\* by single spaces; a paper imported with no authors has no Authors segment.
C19_TextComposition ==
    \A p \in papers :
       HasEmbedding(p.id) =>
          /\ _paper_to_text(p) = text_as_claimed(p)
          /\ StoredVector(p.id) = embed_text(text_as_claimed(p))

\* the last completed request is a successful import, or a successful upload
\* that asked for an embedding
Ingested ==
    /\ response.status = 200
    /\ \/ response.op = "import_paper"
       \/ response.op = "upload_pdf" /\ response.create_emb

\* C20: every successful import, and every successful upload with create_emb
\* set, calls create_embedding for the resulting paper (it either stored a
\* vector or logged a failure), so the paper has an embedding on return unless
\* the embedder failed during this very call.
C20_IngestAlwaysEmbeds ==
    Ingested =>
       /\ response.embedded \/ response.logged
       /\ ~response.logged => HasEmbedding(response.paper_id)

\* the papers linked to a workspace
LinkedTo(workspace_id) ==
    {workspace_papers[i].paper_id :
        i \in {j \in DOMAIN workspace_papers :
                  workspace_papers[j].workspace_id = workspace_id}}

Range(s) == {s[i] : i \in DOMAIN s}

\* a chat request that got as far as building the context for the LLM
ChatContextBuilt == response.op = "send_message" /\ response.status \in {200, 502}

\* C21: in the chat endpoint, when workspace search returns nothing (no linked
\* paper of the workspace has an embedding) the context handed to the LLM is
\* exactly the set of papers linked to the workspace; when it returns a ranked
\* list, the context is exactly that list, in rank order, and holds no
\* unembedded paper.
C21_ChatContextFallback ==
    ChatContextBuilt =>
       IF response.out = <<>>
       THEN /\ Range(response.context) = LinkedTo(response.workspace_id)
            /\ \A id \in LinkedTo(response.workspace_id) : ~HasEmbedding(id)
       ELSE /\ response.context =
                  [k \in 1..Len(response.out) |-> response.out[k].paper_id]
            /\ \A id \in Range(response.context) : HasEmbedding(id)

\* C21 witness: a chat message answered for a workspace with two linked papers,
\* neither embedded: the search returned nothing and both went to the LLM.
C21_Witness ==
    /\ ChatContextBuilt /\ response.status = 200
    /\ response.out = <<>>
    /\ Cardinality(LinkedTo(response.workspace_id)) = 2
    /\ Range(response.context) = LinkedTo(response.workspace_id)

\* the source paper of the last related-papers request is a paper of the user
\* who asked
SourceOwned ==
    \E p \in papers : p.id = response.paper_id /\ p.owner_id = response.user

\* C26: related papers asked by a user for a source paper that is not theirs
\* returns nothing: the user's papers are never ranked against the stored
\* vector of another user's paper.
C26_RelatedSourceOwnedOnly ==
    (response.op = "get_related_papers" /\ ~SourceOwned) =>
       /\ response.out = <<>>
       /\ response.scores = <<>>

\* C27: an import_paper request that names a workspace which does not exist or
\* is not the caller's ends with 404 and commits nothing: no paper row and no
\* embedding row is added.
C27_RejectedImportWritesNothing ==
    [][(response'.op = "import_paper" /\ response'.status = 404) =>
          /\ papers' = papers
          /\ vector_embeddings' = vector_embeddings
          /\ workspace_papers' = workspace_papers]_vars

\* the paper the last import returned, as stored after the request
ReturnedPaper == CHOOSE p \in papers' : p.id = response'.paper_id

\* C30: every import_paper call for a manual entry (no external_id) adds a new
\* paper with the submitted title to the caller's library and returns it; it is
\* never answered with an earlier paper, imported or uploaded, that also has no
\* external_id.
C30_ManualEntryIsNewPaper ==
    [][(/\ response'.op = "import_paper" /\ response'.status = 200
        /\ response' # response
        /\ ReturnedPaper.external_id = None) =>
          /\ response'.paper_id \notin PaperIds
          /\ ReturnedPaper.title = response'.title
          /\ ReturnedPaper.owner_id = response'.user]_vars

\* the owners of the workspace and of the paper a link joins
WorkspaceOwners(link) == {w.owner_id : w \in {v \in workspaces : v.id = link.workspace_id}}

PaperOwners(link) == {p.owner_id : p \in {q \in papers : q.id = link.paper_id}}

\* C29: every WorkspacePaper link joins an existing workspace and an existing
\* paper of the same owner, so the papers the unfiltered join of the chat
\* fallback and of the workspace listing returns for a workspace all belong to
\* the owner of that workspace.
C29_LinksJoinSameOwner ==
    /\ \A i \in DOMAIN workspace_papers :
          /\ Cardinality(WorkspaceOwners(workspace_papers[i])) = 1
          /\ PaperOwners(workspace_papers[i]) = WorkspaceOwners(workspace_papers[i])
    /\ \A w \in workspaces :
          \A id \in Range(all_papers(workspace_papers, w.id)) :
             \E p \in papers : p.id = id /\ p.owner_id = w.owner_id

\* C29 witness: a user with a paper of their own was refused a link into the
\* other user's workspace, which holds a linked paper of its owner.
C29_Witness ==
    /\ response.op = "add_paper_to_workspace" /\ response.status = 404
    /\ \E p \in papers : p.id = response.paper_id /\ p.owner_id = response.user
    /\ \E w \in workspaces : /\ w.id = response.workspace_id
                             /\ w.owner_id # response.user
                             /\ LinkedTo(w.id) # {}

\* a request for /health has been sent and waits for the server
HealthWaits == \E r \in requests : r.op = "health"

\* C22: while an import_paper or upload_pdf request computes an embedding, an
\* unrelated request that has arrived (/health) can be served: the embedding
\* does not hold the event loop.
C22_EmbeddingDoesNotStall ==
    (event_loop.op \in {"import_paper", "upload_pdf"} /\ HealthWaits) =>
       \E r \in requests : ENABLED health(r)

\* user's papers that carry the same non-null external_id and source
Copies(p) ==
    {q \in papers : /\ q.external_id = p.external_id
                    /\ q.source = p.source
                    /\ q.owner_id = p.owner_id}

\* C23: whatever import_paper requests are sent, one after another or at the
\* same time, a user's library holds at most one paper for each (external_id,
\* source) pair with a non-null external_id; a repeated import is answered with
\* the paper already stored and adds no row.
C23_OnePaperPerExternalId ==
    /\ [](\A p \in papers : p.external_id # None => Copies(p) = {p})
    /\ [][(/\ response'.op = "import_paper" /\ response' # response
            /\ ReturnedPaper.external_id # None
            /\ \E p \in papers : same_paper(p, ReturnedPaper, response'.user)) =>
              /\ ReturnedPaper \in papers
              /\ papers' = papers]_vars

\* C23 witness: two identical import requests were sent at the same time; the
\* second one to run was answered with the paper the first had stored, and the
\* library holds one paper.
C23_Witness ==
    /\ response.op = "import_paper" /\ response.status = 200
    /\ ~response.embedded /\ ~response.failed
    /\ \E p \in papers : /\ p.id = response.paper_id
                         /\ p.external_id # None
    /\ Cardinality(papers) = 1
    /\ next_paper_id = 2

\* C28: however add_paper_to_workspace, import_paper with a workspace and
\* upload_pdf interleave, there is at most one link per (workspace, paper)
\* pair, and workspace search never returns the same paper twice.
C28_OneLinkPerPair ==
    /\ \A i, j \in DOMAIN workspace_papers :
          workspace_papers[i] = workspace_papers[j] => i = j
    /\ Searched("workspace_semantic_search") =>
          \A i, j \in DOMAIN response.out :
             response.out[i].paper_id = response.out[j].paper_id => i = j

\* the stored conversation of a workspace, oldest message first
Conversation(table, workspace_id) ==
    SelectSeq(table, LAMBDA r : r.workspace_id = workspace_id)

\* the n newest elements of s, in the order of s
Newest(s, n) == SubSeq(s, IF Len(s) > n THEN Len(s) - n + 1 ELSE 1, Len(s))

\* C24: the history send_message hands to the LLM is the 10 most recent turns
\* of the workspace's stored conversation, however long that conversation is.
C24_LlmSeesNewestTurns ==
    [][(response'.op = "send_message" /\ response'.status \in {200, 502}) =>
          response'.sent =
             Newest(Conversation(conversation_history, response'.workspace_id),
                    RecentTurns)]_vars

\* C25: get_history(workspace_id, limit) returns the newest `limit` messages of
\* the workspace's conversation, oldest of them first.
C25_HistoryReturnsNewest ==
    (response.op = "get_history" /\ response.status = 200) =>
       response.history =
          Newest(Conversation(conversation_history, response.workspace_id),
                 response.limit)

====
